---- MODULE Spec2Model ----
(***************************************************************************)
(* KiteLink (Zerodha MCP server): the credential lifecycle at process      *)
(* start-up.  One process run goes: load .env (dotenv), check the API key  *)
(* and secret, resolve a bearer token (probe the stored one, or run the    *)
(* interactive exchange and persist the result), build the ZerodhaClient,  *)
(* test the connection, connect the stdio transport and serve tool calls.  *)
(* The .env store outlives the process, so several runs are modelled.      *)
(*                                                                         *)
(* Strings that the code inspects (tokens, lines of the .env store) are    *)
(* sequences of symbols; the empty string is << >>.                        *)
(***************************************************************************)
EXTENDS Integers, Sequences, FiniteSets, TLC

VARIABLES
    envFile,          \* the .env store: [exists, lines]
    osEnv,            \* variables the shell gave the process (survive dotenv)
    env,              \* process.env after dotenv.config()
    run,              \* number of process starts so far
    prev,             \* what the previous run exchanged and whether it wrote it
    pc,               \* where the running process is
    exitCode,         \* NotExited, or Exited(the status of process.exit)
    failure,          \* why start-up failed in this run ("none" when it did not)
    storeAtLaunch,    \* the .env store as it was when this run started
    existingToken,    \* getValidAccessToken's third argument
    probeOutcome,     \* the answer to the probe, when the last step received it
    isValid,          \* validateAccessToken's result: "unset", "true", "false", "threw"
    pasted,           \* the line answered at the prompt, when the last step read it
    probes,           \* GET /user/profile calls made by validateAccessToken
    prompts,          \* rl.question calls
    posts,            \* POST /session/token calls
    requestToken,     \* the request_token of the POST /session/token in flight
    postBody,         \* the form body of the POST /session/token in flight
    exchangeOutcome,  \* the answer to the exchange, when the last step received it
    errorMessage,     \* message of the Error getValidAccessToken threw in the last step
    accessToken,      \* access_token of the successful exchange
    persistCalls,     \* the arguments of the updateEnvFile calls, in order
    persistDone,      \* number of updateEnvFile calls that have returned
    persistThrew,     \* TRUE once an updateEnvFile call threw to its caller
    lastPersist,      \* content read and content written by updateEnvFile
    resolved,         \* the value getValidAccessToken returned
    zerodhaClient,    \* this.zerodhaClient
    connected,        \* server.connect(transport) has run
    toolCalls,        \* CallTool requests handled
    nullClientCalls,  \* CallTool requests that found zerodhaClient null
    gatewayRequests,  \* HTTP requests issued by Gateway methods
    toolErrors,       \* errors Gateway methods threw to the CallTool handler
    lastResult,       \* outcome of the last CallTool request
    cliPc,            \* where the interactive client is
    category,         \* index of the category whose tools are shown (0: none)
    choice,           \* the menu and the text of the choice the last step read
    clientMade,       \* this.client and this.transport of the MCPClient are set
    closed,           \* client.close() and transport.close() were called
    rlClosed,         \* the readline interface of the MCPClient is closed
    disconnects,      \* calls of MCPClient.disconnect
    lastCall          \* the tool call whose result is on the screen

vars == <<envFile, osEnv, env, run, prev, pc, exitCode, failure, storeAtLaunch,
          existingToken, probeOutcome, isValid, pasted, probes, prompts, posts, requestToken, postBody,
          exchangeOutcome, errorMessage, accessToken, persistCalls,
          persistDone, persistThrew, lastPersist, resolved, zerodhaClient,
          connected, toolCalls, nullClientCalls, gatewayRequests, toolErrors,
          lastResult, cliPc, category, choice, clientMade, closed, rlClosed,
          disconnects, lastCall>>

----------------------------------------------------------------------------
(* Bounds of the model *)

MaxRuns == 2          \* process starts
MaxPasteLen == 2      \* characters of the pasted request token
MaxToolCalls == 2     \* CallTool requests per run

----------------------------------------------------------------------------
(* Values *)

Undefined == <<"<undefined>">>      \* JavaScript undefined
Null == [null |-> TRUE]             \* JavaScript null
EmptyStr == << >>
NotExited == << >>                  \* exitCode while the process lives
Exited(code) == <<code>>            \* exitCode after process.exit(code)

\* 'your_access_token', the sentinel of getValidAccessToken
Placeholder == <<"your_access_token">>

K_API_KEY == "ZERODHA_API_KEY"
K_API_SECRET == "ZERODHA_API_SECRET"
K_ACCESS_TOKEN == "ZERODHA_ACCESS_TOKEN"
K_BASE_URL == "ZERODHA_BASE_URL"
K_TIMEOUT == "REQUEST_TIMEOUT"
EnvKeys == {K_API_KEY, K_API_SECRET, K_ACCESS_TOKEN, K_BASE_URL, K_TIMEOUT}

\* key=value line of the store
KV(k, v) == <<k, "=">> \o v

\* access tokens the broker may mint, and an older one found in stores
T1 == <<"T1">>
T2 == <<"T2">>
Old == <<"old">>
Old2 == <<"old2">>
MintedTokens == {T1, T2}

----------------------------------------------------------------------------
(* The .env store *)

Comment(text) == <<"#", text>>

\* the content updateEnvFile starts from when .env cannot be read
DefaultEnvLines ==
    << Comment(" Zerodha API Configuration"),
       KV(K_API_KEY, <<"your_api_key">>),
       KV(K_API_SECRET, <<"your_api_secret">>),
       KV(K_ACCESS_TOKEN, Placeholder),
       EmptyStr,
       Comment(" Optional: Request timeout in milliseconds"),
       KV(K_TIMEOUT, <<"30000">>),
       EmptyStr,
       Comment(" Optional: Base URL for Zerodha API"),
       KV(K_BASE_URL, <<"https://api.kite.trade">>) >>

KeyLines == << KV(K_API_KEY, <<"k">>), KV(K_API_SECRET, <<"s">>) >>

\* the sample .env of the README: credentials and a comment, no token line
ReadmeEnvLines ==
    KeyLines \o << <<"#", " ", K_ACCESS_TOKEN, " will be generated automatically">> >>

NoFile == [exists |-> FALSE, lines |-> << >>]
File(ls) == [exists |-> TRUE, lines |-> ls]

\* the stores a run may start from
InitialStores ==
    { NoFile,
      File(ReadmeEnvLines),
      File(KeyLines \o << KV(K_ACCESS_TOKEN, Old) >>),
      File(KeyLines \o << KV(K_ACCESS_TOKEN, Placeholder) >>),
      File(KeyLines \o << KV(K_ACCESS_TOKEN, EmptyStr) >>),
      File(<< Comment(" token goes here") >> \o KeyLines
              \o << KV(K_ACCESS_TOKEN, Old), Comment(" end") >>),
      File(<< <<"#", " ", K_ACCESS_TOKEN, "=", "<paste here>">> >> \o KeyLines
              \o << KV(K_ACCESS_TOKEN, Old) >>),
      File(KeyLines \o << KV(K_ACCESS_TOKEN, Old), KV(K_ACCESS_TOKEN, Old2) >>),
      File(<< KV(K_API_KEY, <<"k">>), KV(K_ACCESS_TOKEN, Old) >>),
      File(<< KV(K_API_KEY, <<"k">>), KV(K_API_SECRET, EmptyStr),
              KV(K_ACCESS_TOKEN, Old) >>) }

\* the variables the shell may hand to the process
NoOsEnv == [k \in EnvKeys |-> Undefined]
InitialOsEnvs ==
    { NoOsEnv,
      [NoOsEnv EXCEPT ![K_API_KEY] = <<"k">>, ![K_API_SECRET] = <<"s">>],
      [NoOsEnv EXCEPT ![K_API_KEY] = <<"k">>, ![K_API_SECRET] = <<"s">>,
                      ![K_ACCESS_TOKEN] = Old],
      [NoOsEnv EXCEPT ![K_API_KEY] = <<"k">>, ![K_API_SECRET] = <<"s">>,
                      ![K_BASE_URL] = <<"https://sandbox.kite.trade">>,
                      ![K_TIMEOUT] = <<"5000">>] }

\* dotenv: a line assigns k when it starts with k followed by '='
Assigns(line, k) == Len(line) >= 2 /\ line[1] = k /\ line[2] = "="

\* dotenv.parse: the last assignment of a key wins
DotenvParse(file, k) ==
    LET idx == {i \in 1..Len(file.lines) : Assigns(file.lines[i], k)}
    IN  IF ~file.exists \/ idx = {} THEN Undefined
        ELSE LET i == CHOOSE x \in idx : \A y \in idx : y <= x
             IN  SubSeq(file.lines[i], 3, Len(file.lines[i]))

\* dotenv.config(): variables already in the environment are not overridden
DotenvConfig(os, file) ==
    [k \in EnvKeys |-> IF os[k] # Undefined THEN os[k] ELSE DotenvParse(file, k)]

----------------------------------------------------------------------------
(* Pure parts of the resolver *)

\* as ShouldValidate, without the comparison against the sentinel
ShouldValidate_NoSentinel(token) ==
    token # Undefined /\ token # EmptyStr

\* getValidAccessToken: `existingToken && existingToken !== 'your_access_token'`
ShouldValidate(token) ==
    token # Undefined /\ token # EmptyStr /\ token # Placeholder

\* as MissingConfig, with only the API key looked at
MissingConfig_KeyOnly(e) ==
    e[K_API_KEY] = Undefined \/ e[K_API_KEY] = EmptyStr

\* initializeZerodhaClient: `!apiKey || !apiSecret`
MissingConfig(e) ==
    \/ e[K_API_KEY] = Undefined \/ e[K_API_KEY] = EmptyStr
    \/ e[K_API_SECRET] = Undefined \/ e[K_API_SECRET] = EmptyStr

----------------------------------------------------------------------------
(* The configuration of the Gateway *)

\* a string that JavaScript takes as true
Truthy(str) == str # Undefined /\ str # EmptyStr

\* parseInt of a decimal string; numbers are written as their digits
ParseInt(str) ==
    IF str \in {<<"30000">>, <<"5000">>} THEN str ELSE <<"NaN">>

\* the config object initializeZerodhaClient passes to the constructor: the
\* baseUrl and timeout keys are always there, undefined when not configured
InitConfig(e, tok) ==
    [apiKey |-> e[K_API_KEY],
     apiSecret |-> e[K_API_SECRET],
     accessToken |-> tok,
     baseUrl |-> e[K_BASE_URL],
     timeout |-> IF Truthy(e[K_TIMEOUT]) THEN ParseInt(e[K_TIMEOUT]) ELSE Undefined]

\* the defaults the ZerodhaClient constructor lists before `...config`
ConstructorDefaults ==
    [baseUrl |-> <<"https://api.kite.trade">>, timeout |-> <<"30000">>]

\* { ...a, ...b }: every own key of b, undefined or not, replaces a's
Spread(a, b) ==
    [key \in DOMAIN a \cup DOMAIN b |-> IF key \in DOMAIN b THEN b[key] ELSE a[key]]

\* new ZerodhaClient(config): this.config and the axios instance made from it
NewZerodhaClient(config) ==
    LET merged == Spread(ConstructorDefaults, config)
    IN  [apiKey |-> merged.apiKey,
         accessToken |-> merged.accessToken,
         baseUrl |-> merged.baseUrl,
         timeout |-> merged.timeout,
         authorization |-> <<"token ">> \o merged.apiKey \o <<":">> \o merged.accessToken]

\* what an HTTP call can come back with: axios resolves only on a 2xx status
HttpKinds == {"ok", "httpError", "networkError", "timeout"}

\* bodies of a GET /user/profile answer
ProbeBodies == {"success", "error", "noStatus", "empty", "null", "notJson"}
ProbeOutcomes ==
    [kind : {"ok"}, body : ProbeBodies]
      \cup [kind : {"httpError"}, body : {"success", "error", "empty"}]
      \cup [kind : {"networkError", "timeout"}, body : {"empty"}]

\* response.data.status of a body; "<threw>" when reading it raises a TypeError
StatusField(body) ==
    CASE body = "success" -> "success"
      [] body = "error"   -> "error"
      [] body = "null"    -> "<threw>"
      [] OTHER            -> "<undefined>"

\* as ValidateAccessToken, without the try/catch around the request
ValidateAccessToken_NoCatch(o) ==
    IF o.kind # "ok" THEN "threw"
    ELSE IF StatusField(o.body) = "<threw>" THEN "threw"
    ELSE IF StatusField(o.body) = "success" THEN "true" ELSE "false"

\* validateAccessToken: the try returns status === 'success'; whatever is
\* thrown inside it (by axios, or by reading the body) is caught and gives false
ValidateAccessToken(o) ==
    IF o.kind # "ok" THEN "false"
    ELSE IF StatusField(o.body) = "<threw>" THEN "false"
    ELSE IF StatusField(o.body) = "success" THEN "true" ELSE "false"

\* as AfterProbe, with the early return of the valid branch left out
AfterProbe_FallThrough(valid) == "interactive"

\* getValidAccessToken after the probe: return the token, or fall through
AfterProbe(valid) == IF valid = "true" THEN "return" ELSE "interactive"

\* the characters a pasted line is made of
PasteChars == {" ", "r", "s"}
PastedLines == UNION {[1..n -> PasteChars] : n \in 0..MaxPasteLen}

RECURSIVE TrimLeft(_)
TrimLeft(str) ==
    IF str # << >> /\ Head(str) = " " THEN TrimLeft(Tail(str)) ELSE str

RECURSIVE TrimRight(_)
TrimRight(str) ==
    IF str # << >> /\ str[Len(str)] = " "
    THEN TrimRight(SubSeq(str, 1, Len(str) - 1)) ELSE str

\* String.prototype.trim
Trim(str) == TrimRight(TrimLeft(str))

\* as IsBlank, without the trim
IsBlank_NoTrim(line) == line = EmptyStr

\* interactiveAuth: `!requestToken || requestToken.trim() === ''`
IsBlank(line) == line = EmptyStr \/ Trim(line) = EmptyStr

\* crypto.createHash('sha256').update(message).digest('hex'): a digest that
\* differs whenever the message differs
Sha256(message) == <<"sha256(">> \o message \o <<")">>

\* as Checksum, with the secret hashed before the request token
Checksum_Reordered(apiKey, reqToken, apiSecret) ==
    Sha256(apiKey \o apiSecret \o reqToken)

\* generateAccessToken: sha256 of apiKey + requestToken + apiSecret
Checksum(apiKey, reqToken, apiSecret) ==
    Sha256(apiKey \o reqToken \o apiSecret)

\* generateAccessToken: the URLSearchParams posted to /session/token
SessionTokenBody(apiKey, reqToken, apiSecret) ==
    [api_key |-> apiKey,
     request_token |-> reqToken,
     checksum |-> Checksum(apiKey, reqToken, apiSecret)]

\* answers of POST /session/token
\* interface AuthTokenResponse
AuthTokenResponses ==
    [access_token : MintedTokens, public_token : {<<"P1">>},
     login_time : {<<"2024-01-01 09:15:00">>}]

\* the message field of an error envelope
ServerMessages == {<<"Invalid checksum">>}

\* a 2xx answer with the success envelope, a 2xx answer with another status,
\* a non-2xx answer (with or without a message), no answer
ExchangeOutcomes ==
    [kind : {"ok"}, status : {"success"}, data : AuthTokenResponses]
      \cup [kind : {"ok", "httpError"}, status : {"error"},
            message : ServerMessages \cup {Undefined}]
      \cup [kind : {"networkError", "timeout"}, status : {"none"},
            message : {Undefined}]

NoExchange == [kind |-> "none"]

\* as AuthResult, with the public token resolved
AuthResult_PublicToken(authResponse) == authResponse.public_token

\* interactiveAuth: resolve(authResponse.access_token)
AuthResult(authResponse) == authResponse.access_token

\* as InteractiveAuthRejects, with the error of the exchange swallowed
InteractiveAuthRejects_Swallow(threw) == FALSE

\* interactiveAuth: the catch around generateAccessToken calls reject(error)
InteractiveAuthRejects(threw) == threw

\* a value interpolated in a template literal
Str(v) == IF v = Undefined THEN <<"undefined">> ELSE v

\* error.message of the AxiosError
AxiosMessage(kind) ==
    CASE kind = "httpError" -> <<"Request failed with status code 403">>
      [] kind = "networkError" -> <<"Network Error">>
      [] kind = "timeout" -> <<"timeout of 30000ms exceeded">>

\* the message generateAccessToken throws with
ExchangeError(o) ==
    IF o.kind = "ok"
    THEN <<"Authentication failed: ">> \o Str(o.message)
    ELSE <<"Failed to generate access token: ">>
           \o (IF Truthy(o.message) THEN o.message ELSE AxiosMessage(o.kind))

\* the catch of getValidAccessToken wraps what interactiveAuth rejected with
ResolverError(message) == <<"Authentication failed: ">> \o message

\* generateAccessToken: resolves only on a 2xx answer with status 'success'
ExchangeSucceeds(o) == o.kind = "ok" /\ o.status = "success"

\* the kind of failure generateAccessToken throws with
ExchangeFailure(o) == IF o.kind = "ok" THEN "status" ELSE "network"

----------------------------------------------------------------------------
(* updateEnvFile: content.replace(/ZERODHA_ACCESS_TOKEN=.*/, ...) *)

\* positions of a line where the text 'ZERODHA_ACCESS_TOKEN=' starts
MatchPositions(line) ==
    {j \in 1..(Len(line) - 1) : line[j] = K_ACCESS_TOKEN /\ line[j + 1] = "="}

\* lines holding a match of the pattern
MatchLines(lines) == {i \in 1..Len(lines) : MatchPositions(lines[i]) # {}}

Least(S) == CHOOSE x \in S : \A y \in S : x <= y

\* the first match is replaced up to the end of its line; what precedes it stays
ReplaceInLine(line, token) ==
    SubSeq(line, 1, Least(MatchPositions(line)) - 1) \o KV(K_ACCESS_TOKEN, token)

\* String.prototype.replace with a regex without the g flag: first match only
UpdatedContent(lines, token) ==
    IF MatchLines(lines) = {} THEN lines
    ELSE [i \in 1..Len(lines) |->
            IF i = Least(MatchLines(lines)) THEN ReplaceInLine(lines[i], token)
            ELSE lines[i]]

\* the content updateEnvFile works on after fs.readFile
ContentRead(file, readOk) ==
    IF file.exists /\ readOk THEN file.lines ELSE DefaultEnvLines

\* as UpdateEnvFileThrows, with the failure of the write rethrown
UpdateEnvFileThrows_Rethrow(writeOk) == ~writeOk

\* updateEnvFile's outer catch: a failed write is logged, never rethrown
UpdateEnvFileThrows(writeOk) == FALSE

----------------------------------------------------------------------------
(* The process *)

storeV == <<envFile, osEnv>>
runV == <<env, run, prev>>
resolverV == <<existingToken, probes, prompts, posts, requestToken, postBody, accessToken,
               persistCalls, persistDone, persistThrew, lastPersist, resolved>>
histV == <<storeAtLaunch, isValid>>
NoOutcome == [kind |-> "none", body |-> "none"]
callV == <<toolCalls, nullClientCalls, toolErrors, lastResult>>
cliV == <<cliPc, category, choice, clientMade, closed, rlClosed, disconnects, lastCall>>
NoChoice == [menu |-> "none"]
NoCall == [tool |-> "none"]

\* new MCPClient(): no client, no transport, an open readline interface
CliInit ==
    /\ cliPc = "start"
    /\ category = 0
    /\ choice = NoChoice
    /\ clientMade = FALSE
    /\ closed = FALSE
    /\ rlClosed = FALSE
    /\ disconnects = 0
    /\ lastCall = NoCall

NoPersist == [read |-> << >>, written |-> << >>, existed |-> FALSE, wrote |-> FALSE]

Init ==
    /\ envFile \in InitialStores
    /\ osEnv \in InitialOsEnvs
    /\ env = NoOsEnv
    /\ run = 0
    /\ prev = [exchanged |-> Undefined, wrote |-> FALSE]
    /\ pc = "off"
    /\ exitCode = NotExited
    /\ failure = "none"
    /\ storeAtLaunch = envFile
    /\ existingToken = Undefined
    /\ probeOutcome = NoOutcome
    /\ isValid = "unset"
    /\ pasted = Undefined
    /\ probes = 0
    /\ prompts = 0
    /\ posts = 0
    /\ requestToken = Undefined
    /\ postBody = Null
    /\ exchangeOutcome = NoExchange
    /\ errorMessage = Undefined
    /\ accessToken = Undefined
    /\ persistCalls = << >>
    /\ persistDone = 0
    /\ persistThrew = FALSE
    /\ lastPersist = NoPersist
    /\ resolved = Undefined
    /\ zerodhaClient = Null
    /\ connected = FALSE
    /\ toolCalls = 0
    /\ nullClientCalls = 0
    /\ gatewayRequests = 0
    /\ toolErrors = 0
    /\ lastResult = "none"
    /\ CliInit

\* as RunConnects, with initializeZerodhaClient() not awaited
RunConnects_NoAwait(initCompleted) == TRUE

\* run(): server.connect(transport) comes after `await initializeZerodhaClient()`
RunConnects(initCompleted) == initCompleted

\* as FailStartup, with the error logged and start-up carried on
FailStartup_LogOnly(kind) ==
    /\ pc' = "serving"
    /\ failure' = kind
    /\ connected' = TRUE
    /\ UNCHANGED <<exitCode, resolved, zerodhaClient, gatewayRequests>>

\* the catch of initializeZerodhaClient (and its configuration check):
\* console.error, then process.exit(1)
FailStartup(kind) ==
    /\ pc' = "exited"
    /\ exitCode' = Exited(1)
    /\ failure' = kind
    /\ UNCHANGED <<resolved, zerodhaClient, connected, gatewayRequests>>

\* as ReturnToken, with the config built from the token of the environment
ReturnToken_StaleToken(tok) ==
    /\ resolved' = tok
    /\ zerodhaClient' = NewZerodhaClient(InitConfig(env, existingToken))
    /\ gatewayRequests' = gatewayRequests + 1
    /\ pc' = "testConn"
    /\ UNCHANGED <<exitCode, failure, connected>>

\* getValidAccessToken returns tok; initializeZerodhaClient builds the
\* ZerodhaClient from it and issues getProfile() to test the connection
ReturnToken(tok) ==
    /\ resolved' = tok
    /\ zerodhaClient' = NewZerodhaClient(InitConfig(env, tok))
    /\ gatewayRequests' = gatewayRequests + 1
    /\ pc' = "testConn"
    /\ UNCHANGED <<exitCode, failure, connected>>

\* the promise of interactiveAuth never settles and nothing else is pending:
\* Node ends the process with status 0
EventLoopDrained ==
    /\ pc' = "exited"
    /\ exitCode' = Exited(0)
    /\ UNCHANGED <<failure, resolved, zerodhaClient, connected, gatewayRequests>>

\* a step that receives neither a probe answer nor a pasted line
NoInput ==
    /\ probeOutcome' = NoOutcome
    /\ pasted' = Undefined
    /\ exchangeOutcome' = NoExchange
    /\ errorMessage' = Undefined

\* the process goes on waiting at p
Await(p) ==
    /\ pc' = p
    /\ UNCHANGED <<exitCode, failure, resolved, zerodhaClient, connected, gatewayRequests>>

\* interactiveAuth up to rl.question
StartInteractive ==
    /\ prompts' = prompts + 1
    /\ Await("prompt")

\* a process start: dotenv.config(), new ZerodhaMCPServer(), run(), and
\* initializeZerodhaClient up to its first wait
Launch ==
    /\ pc \in {"off", "exited"}
    /\ run < MaxRuns
    /\ run' = run + 1
    /\ env' = DotenvConfig(osEnv, envFile)
    /\ storeAtLaunch' = envFile
    /\ probeOutcome' = NoOutcome
    /\ isValid' = "unset"
    /\ pasted' = Undefined
    /\ exchangeOutcome' = NoExchange
    /\ errorMessage' = Undefined
    /\ prev' = [exchanged |-> accessToken, wrote |-> lastPersist.wrote]
    /\ requestToken' = Undefined
    /\ postBody' = Null
    /\ accessToken' = Undefined
    /\ persistCalls' = << >>
    /\ persistDone' = 0
    /\ persistThrew' = FALSE
    /\ lastPersist' = NoPersist
    /\ resolved' = Undefined
    /\ zerodhaClient' = Null
    /\ posts' = 0
    /\ toolCalls' = 0
    /\ nullClientCalls' = 0
    /\ gatewayRequests' = 0
    /\ toolErrors' = 0
    /\ lastResult' = "none"
    /\ IF MissingConfig(env')
       THEN /\ pc' = "exited"
            /\ exitCode' = Exited(1)
            /\ failure' = "config"
            /\ existingToken' = Undefined
            /\ probes' = 0
            /\ prompts' = 0
            /\ connected' = FALSE
       ELSE /\ exitCode' = NotExited
            /\ failure' = "none"
            /\ existingToken' = env'[K_ACCESS_TOKEN]
            /\ connected' = RunConnects(FALSE)
            /\ IF ShouldValidate(existingToken')
               THEN probes' = 1 /\ prompts' = 0 /\ pc' = "probe"
               ELSE probes' = 0 /\ prompts' = 1 /\ pc' = "prompt"
    /\ UNCHANGED storeV
    /\ UNCHANGED cliV

\* the answer to validateAccessToken's GET /user/profile arrives
ProbeResponse(o) ==
    /\ pc = "probe"
    /\ probeOutcome' = o
    /\ isValid' = ValidateAccessToken(o)
    /\ IF isValid' = "threw"
       THEN FailStartup("probe") /\ UNCHANGED prompts
       ELSE IF AfterProbe(isValid') = "return"
       THEN ReturnToken(existingToken) /\ UNCHANGED prompts
       ELSE StartInteractive
    /\ pasted' = Undefined
    /\ exchangeOutcome' = NoExchange
    /\ errorMessage' = Undefined
    /\ UNCHANGED <<storeV, runV, callV, storeAtLaunch, existingToken, probes, posts, requestToken, postBody,
                   accessToken, persistCalls, persistDone, persistThrew, lastPersist>>
    /\ UNCHANGED cliV

\* the operator answers rl.question with a line
PasteRequestToken(line) ==
    /\ pc = "prompt"
    /\ pasted' = line
    /\ IF IsBlank(line)
       THEN /\ FailStartup("input")
            /\ errorMessage' = ResolverError(<<"Request token is required">>)
            /\ UNCHANGED <<requestToken, postBody, posts>>
       ELSE /\ requestToken' = Trim(line)
            /\ postBody' = SessionTokenBody(env[K_API_KEY], Trim(line), env[K_API_SECRET])
            /\ posts' = posts + 1
            /\ errorMessage' = Undefined
            /\ Await("exchange")
    /\ probeOutcome' = NoOutcome
    /\ exchangeOutcome' = NoExchange
    /\ UNCHANGED <<storeV, runV, callV, histV, existingToken, probes, prompts, accessToken,
                   persistCalls, persistDone, persistThrew, lastPersist>>
    /\ UNCHANGED cliV

\* the input stream ends at the prompt: readline closes without calling the
\* callback of rl.question, so the promise stays pending and the process ends
StdinClosed ==
    /\ pc = "prompt"
    /\ pc' = "exited"
    /\ exitCode' = Exited(0)
    /\ failure' = "stdinClosed"
    /\ NoInput
    /\ UNCHANGED <<storeV, runV, resolverV, callV, histV, resolved, zerodhaClient,
                   connected, gatewayRequests>>
    /\ UNCHANGED cliV

\* as ExchangeResponse, with the call of updateEnvFile left out
ExchangeResponse_NoPersist(o) ==
    /\ pc = "exchange"
    /\ requestToken' = Undefined
    /\ postBody' = Null
    /\ probeOutcome' = NoOutcome
    /\ pasted' = Undefined
    /\ exchangeOutcome' = o
    /\ errorMessage' = Undefined
    /\ IF o.kind = "ok" /\ o.status = "success"
       THEN /\ accessToken' = o.data.access_token
            /\ resolved' = o.data.access_token
            /\ zerodhaClient' = NewZerodhaClient(InitConfig(env, o.data.access_token))
            /\ gatewayRequests' = gatewayRequests + 1
            /\ pc' = "testConn"
            /\ UNCHANGED <<exitCode, failure, connected>>
       ELSE /\ pc' = "exited"
            /\ exitCode' = Exited(1)
            /\ failure' = IF o.kind = "ok" THEN "status" ELSE "network"
            /\ UNCHANGED <<accessToken, resolved, zerodhaClient, connected,
                           gatewayRequests>>
    /\ UNCHANGED <<envFile, osEnv, env, run, prev, callV, storeAtLaunch, isValid,
                   existingToken, probes, prompts, posts, persistCalls, persistDone, persistThrew, lastPersist>>
    /\ UNCHANGED cliV

\* the answer to generateAccessToken's POST /session/token arrives; on success
\* getValidAccessToken calls updateEnvFile, which starts reading .env
ExchangeResponse(o) ==
    /\ pc = "exchange"
    /\ requestToken' = Undefined
    /\ postBody' = Null
    /\ probeOutcome' = NoOutcome
    /\ pasted' = Undefined
    /\ exchangeOutcome' = o
    /\ IF ExchangeSucceeds(o)
       THEN /\ accessToken' = AuthResult(o.data)
            /\ persistCalls' = Append(persistCalls, accessToken')
            /\ errorMessage' = Undefined
            /\ Await("envRead")
       ELSE IF InteractiveAuthRejects(TRUE)
       THEN /\ FailStartup(ExchangeFailure(o))
            /\ errorMessage' = ResolverError(ExchangeError(o))
            /\ UNCHANGED <<accessToken, persistCalls>>
       ELSE /\ EventLoopDrained
            /\ errorMessage' = Undefined
            /\ UNCHANGED <<accessToken, persistCalls>>
    /\ UNCHANGED <<storeV, runV, callV, histV, existingToken, probes, prompts, posts,
                   persistDone, persistThrew, lastPersist>>
    /\ UNCHANGED cliV

\* updateEnvFile: fs.readFile settles; the new content is computed and
\* fs.writeFile is started
EnvReadDone(readOk) ==
    /\ pc = "envRead"
    /\ readOk => envFile.exists
    /\ LET content == ContentRead(envFile, readOk)
       IN  lastPersist' = [read |-> content,
                           written |-> UpdatedContent(content, persistCalls[Len(persistCalls)]),
                           existed |-> envFile.exists /\ readOk,
                           wrote |-> FALSE]
    /\ Await("envWrite")
    /\ NoInput
    /\ UNCHANGED <<storeV, runV, callV, histV, existingToken, probes, prompts, posts,
                   requestToken, postBody, accessToken, persistCalls, persistDone, persistThrew>>
    /\ UNCHANGED cliV

\* updateEnvFile: fs.writeFile settles and updateEnvFile returns;
\* getValidAccessToken then returns the exchanged token
EnvWriteDone(writeOk) ==
    /\ pc = "envWrite"
    /\ NoInput
    /\ IF writeOk
       THEN /\ envFile' = File(lastPersist.written)
            /\ lastPersist' = [lastPersist EXCEPT !.wrote = TRUE]
       ELSE UNCHANGED <<envFile, lastPersist>>
    /\ IF UpdateEnvFileThrows(writeOk)
       THEN /\ persistThrew' = TRUE
            /\ FailStartup("persist")
            /\ UNCHANGED persistDone
       ELSE /\ persistDone' = persistDone + 1
            /\ ReturnToken(accessToken)
            /\ UNCHANGED persistThrew
    /\ UNCHANGED <<osEnv, runV, callV, histV, existingToken, probes, prompts, posts,
                   requestToken, postBody, accessToken, persistCalls>>
    /\ UNCHANGED cliV

\* the answer to the getProfile() connection test arrives; on success
\* initializeZerodhaClient completes and run() connects the transport
TestConnResponse(ok) ==
    /\ pc = "testConn"
    /\ NoInput
    /\ IF ok
       THEN /\ pc' = "serving"
            /\ connected' = RunConnects(TRUE)
            /\ UNCHANGED <<exitCode, failure, resolved, zerodhaClient, gatewayRequests>>
       ELSE FailStartup("connection")
    /\ UNCHANGED <<storeV, runV, callV, histV, existingToken, probes, prompts, posts,
                   requestToken, postBody, accessToken, persistCalls, persistDone, persistThrew,
                   lastPersist>>
    /\ UNCHANGED cliV

----------------------------------------------------------------------------
(* Tool calls *)

\* the names of the tools of zerodhaTools, which ListTools answers with
ZerodhaToolNames ==
    {"get_profile", "get_margins", "get_instruments", "get_positions",
     "get_holdings", "get_orders", "get_order_history", "place_order",
     "modify_order", "cancel_order", "get_trades", "get_order_trades"}

\* as HandlerNames, without the handler of get_order_trades
HandlerNames_NoOrderTrades ==
    {"get_profile", "get_margins", "get_instruments", "get_positions",
     "get_holdings", "get_orders", "get_order_history", "place_order",
     "modify_order", "cancel_order", "get_trades"}

\* the keys of executeToolHandler's handlers table
HandlerNames ==
    {"get_profile", "get_margins", "get_instruments", "get_positions",
     "get_holdings", "get_orders", "get_order_history", "place_order",
     "modify_order", "cancel_order", "get_trades", "get_order_trades"}

\* the enum of the variety property of placeOrderTool
Varieties == {<<"regular">>, <<"co">>, <<"bo">>, <<"amo">>}

NoRequest == [method |-> "none"]

\* String(args.variety || 'regular')
VarietyOf(variety) == IF Truthy(variety) THEN variety ELSE <<"regular">>

\* the request a Gateway method makes of its axios instance: the method, the
\* path, and the variety field of the form it posts
GatewayRequest(name, variety) ==
    LET Get(path) == [method |-> "GET", path |-> path, variety |-> Undefined]
    IN  CASE name = "get_profile" -> Get(<<"/user/profile">>)
          [] name = "get_margins" -> Get(<<"/user/margins">>)
          [] name = "get_instruments" -> Get(<<"/instruments">>)
          [] name = "get_positions" -> Get(<<"/portfolio/positions">>)
          [] name = "get_holdings" -> Get(<<"/portfolio/holdings">>)
          [] name = "get_orders" -> Get(<<"/orders">>)
          [] name = "get_trades" -> Get(<<"/trades">>)
          [] name = "get_order_history" -> Get(<<"/orders/", "<order_id>">>)
          [] name = "get_order_trades" -> Get(<<"/orders/", "<order_id>", "/trades">>)
          [] name = "place_order" ->
               [method |-> "POST", path |-> <<"/orders/", "regular">>,
                variety |-> VarietyOf(variety)]
          [] name = "modify_order" ->
               [method |-> "PUT",
                path |-> <<"/orders/">> \o VarietyOf(variety) \o <<"/", "<order_id>">>,
                variety |-> Undefined]
          [] name = "cancel_order" ->
               [method |-> "DELETE",
                path |-> <<"/orders/">> \o VarietyOf(variety) \o <<"/", "<order_id>">>,
                variety |-> Undefined]

\* handlers that start with validateOrderIdParam
NeedsOrderId(name) ==
    name \in {"get_order_history", "get_order_trades", "modify_order", "cancel_order"}

\* arguments of a request: which of the checked parameters are given (truthy)
ToolArgs == [order_id : BOOLEAN, orderFields : BOOLEAN]

\* as HandlerVerdict, with the checks of the parameters left to the broker
HandlerVerdict_Unchecked(name, args) ==
    IF name \notin HandlerNames THEN "unknown_tool" ELSE "request"

\* executeToolHandler up to the call of the Gateway: the tool is unknown, a
\* checked parameter is missing, or the Gateway method is called
HandlerVerdict(name, args) ==
    IF name \notin HandlerNames THEN "unknown_tool"
    ELSE IF \/ NeedsOrderId(name) /\ ~args.order_id
            \/ name = "place_order" /\ ~args.orderFields
    THEN "missing_param"
    ELSE "request"

\* as GatewayCall, with a failed request issued once more before throwing
GatewayCall_Retry(httpOk) ==
    IF httpOk THEN [requests |-> 1, thrown |-> 0, result |-> "ok"]
    ELSE [requests |-> 2, thrown |-> 1, result |-> "api_error"]

\* a Gateway method: one this.client request inside try; its data is
\* returned, or the catch throws one Error
GatewayCall(httpOk) ==
    IF httpOk THEN [requests |-> 1, thrown |-> 0, result |-> "ok"]
    ELSE [requests |-> 1, thrown |-> 1, result |-> "api_error"]

\* the CallTool request handler, up to the answer of the Gateway's HTTP request
CallTool(name, args, httpOk) ==
    /\ connected
    /\ exitCode = NotExited
    /\ toolCalls < MaxToolCalls
    /\ toolCalls' = toolCalls + 1
    /\ NoInput
    /\ IF zerodhaClient = Null
       THEN /\ nullClientCalls' = nullClientCalls + 1
            /\ lastResult' = "not_initialized"
            /\ UNCHANGED <<gatewayRequests, toolErrors>>
       ELSE /\ UNCHANGED nullClientCalls
            /\ IF HandlerVerdict(name, args) # "request"
               THEN /\ lastResult' = HandlerVerdict(name, args)
                    /\ UNCHANGED <<gatewayRequests, toolErrors>>
               ELSE /\ gatewayRequests' = gatewayRequests + GatewayCall(httpOk).requests
                    /\ toolErrors' = toolErrors + GatewayCall(httpOk).thrown
                    /\ lastResult' = GatewayCall(httpOk).result
    /\ UNCHANGED <<storeV, runV, resolverV, histV, pc, exitCode, failure,
                   zerodhaClient, connected>>
    /\ UNCHANGED cliV

\* the process is ended from outside while serving
Stop ==
    /\ pc = "serving"
    /\ pc' = "exited"
    /\ exitCode' = Exited(0)
    /\ NoInput
    /\ UNCHANGED <<storeV, runV, resolverV, callV, histV, failure, zerodhaClient,
                   connected, gatewayRequests>>
    /\ UNCHANGED cliV

Next ==
    \/ Launch
    \/ \E o \in ProbeOutcomes : ProbeResponse(o)
    \/ \E line \in PastedLines : PasteRequestToken(line)
    \/ StdinClosed
    \/ \E o \in ExchangeOutcomes : ExchangeResponse(o)
    \/ \E readOk \in BOOLEAN : EnvReadDone(readOk)
    \/ \E writeOk \in BOOLEAN : EnvWriteDone(writeOk)
    \/ \E ok \in BOOLEAN : TestConnResponse(ok)
    \/ \E name \in HandlerNames \cup {"bogus"}, args \in ToolArgs, httpOk \in BOOLEAN :
          CallTool(name, args, httpOk)
    \/ Stop

Spec == Init /\ [][Next]_vars

\* every HTTP call is answered or times out (axios timeouts of 10000 and
\* 30000 ms) and every fs promise settles
FairSpec ==
    /\ Spec
    /\ WF_vars(\E o \in ProbeOutcomes : ProbeResponse(o))
    /\ WF_vars(\E o \in ExchangeOutcomes : ExchangeResponse(o))
    /\ WF_vars(\E readOk \in BOOLEAN : EnvReadDone(readOk))
    /\ WF_vars(\E writeOk \in BOOLEAN : EnvWriteDone(writeOk))

----------------------------------------------------------------------------
(* The interactive client (src/client.ts).  The server it spawns is taken *)
(* past its start-up: it answers a tool call as its CallTool handler and  *)
(* the Gateway do.                                                        *)

serverV == <<storeV, runV, resolverV, callV, histV, pc, exitCode, failure,
             probeOutcome, pasted, exchangeOutcome, errorMessage, zerodhaClient,
             connected, gatewayRequests>>

\* an entry of the tools of a category: its name and the parameters prompted for
Tool(name, parameters) == [name |-> name, parameters |-> parameters]

\* MCPClient.toolCategories
ToolCategories ==
    << << Tool("get_profile", << >>), Tool("get_margins", << >>) >>,
       << Tool("get_positions", << >>), Tool("get_holdings", << >>) >>,
       << Tool("get_instruments", <<"exchange", "segment">>) >>,
       << Tool("get_orders", << >>),
          Tool("get_order_history", << >>),
          Tool("get_trades", << >>),
          Tool("get_order_trades", << >>),
          Tool("place_order", <<"variety", "exchange", "tradingsymbol",
                                "transaction_type", "quantity", "product",
                                "order_type">>),
          Tool("modify_order", <<"variety", "order_id">>),
          Tool("cancel_order", <<"variety", "order_id">>) >> >>

\* the lines typed at a menu
MenuLines ==
    {<<"q">>, <<"Q">>, <<"q", " ">>, <<"0">>, <<"1">>, <<"2">>, <<"3">>, <<"4">>,
     <<"5">>, <<"6">>, <<"7">>, <<"8">>, <<"1", "x">>, <<"x">>, EmptyStr}

\* String.prototype.toLowerCase
ToLowerCase(str) == [i \in 1..Len(str) |-> IF str[i] = "Q" THEN "q" ELSE str[i]]

IsDigit(ch) == ch \in {"0", "1", "2", "3", "4", "5", "6", "7", "8", "9"}

DigitValue(ch) ==
    CASE ch = "0" -> 0 [] ch = "1" -> 1 [] ch = "2" -> 2 [] ch = "3" -> 3
      [] ch = "4" -> 4 [] ch = "5" -> 5 [] ch = "6" -> 6 [] ch = "7" -> 7
      [] ch = "8" -> 8 [] ch = "9" -> 9

RECURSIVE LeadingDigits(_)
LeadingDigits(str) ==
    IF str # << >> /\ IsDigit(Head(str))
    THEN <<Head(str)>> \o LeadingDigits(Tail(str)) ELSE << >>

RECURSIVE DecimalValue(_)
DecimalValue(digits) ==
    IF digits = << >> THEN 0
    ELSE 10 * DecimalValue(SubSeq(digits, 1, Len(digits) - 1))
           + DigitValue(digits[Len(digits)])

\* parseInt of a trimmed line: the value of its leading digits, NaN without any
ParseIntLine(str) ==
    [nan |-> LeadingDigits(str) = << >>, value |-> DecimalValue(LeadingDigits(str))]

\* `index >= 0 && index < length` for index = parseInt(choice) - 1
ValidIndex(text, length) ==
    /\ ~ParseIntLine(text).nan
    /\ ParseIntLine(text).value - 1 >= 0
    /\ ParseIntLine(text).value - 1 < length

\* what is typed at the prompt of a parameter
VarietyAnswers == Varieties \cup {EmptyStr}

ParamSet(tool) == {tool.parameters[i] : i \in 1..Len(tool.parameters)}

\* the answers to the prompts of a tool: va for variety, a value for the
\* parameters of given, an empty line for the others
Answers(tool, va, given) ==
    [param \in ParamSet(tool) |->
        IF param = "variety" THEN va
        ELSE IF param \in given THEN <<"v">> ELSE EmptyStr]

\* getToolParameters: `if (value) args[param] = value`
GetToolParameters(answers) ==
    [param \in {q \in DOMAIN answers : answers[q] # EmptyStr} |-> answers[param]]

\* the parameters handlePlaceOrder requires
OrderFields ==
    {"exchange", "tradingsymbol", "transaction_type", "quantity", "product",
     "order_type"}

\* the arguments as the handlers check them
CheckedArgs(args) ==
    [order_id |-> "order_id" \in DOMAIN args,
     orderFields |-> OrderFields \subseteq DOMAIN args]

\* args.variety
ArgVariety(args) == IF "variety" \in DOMAIN args THEN args["variety"] ELSE Undefined

\* MCPClient.callTool and the server's answer to it
CallResult(tool, answers, httpOk) ==
    LET args == GetToolParameters(answers)
        verdict == HandlerVerdict(tool.name, CheckedArgs(args))
    IN  [tool |-> tool.name,
         prompted |-> ParamSet(tool),
         args |-> args,
         result |-> IF verdict = "request" THEN GatewayCall(httpOk).result ELSE verdict,
         request |-> IF verdict = "request"
                     THEN GatewayRequest(tool.name, ArgVariety(args))
                     ELSE NoRequest]

\* as Disconnect, with the client and the transport left open
Disconnect_NoClose(bothSet) ==
    /\ closed' = closed
    /\ rlClosed' = TRUE
    /\ disconnects' = disconnects + 1
    /\ cliPc' = "done"

\* MCPClient.disconnect, and the end of runInteractiveSession: the client and
\* the transport are closed when both are set
Disconnect(bothSet) ==
    /\ closed' = bothSet
    /\ rlClosed' = TRUE
    /\ disconnects' = disconnects + 1
    /\ cliPc' = "done"

\* the menu is displayed again
Display(menu) ==
    /\ cliPc' = menu
    /\ UNCHANGED <<closed, rlClosed, disconnects>>

\* runInteractiveSession up to the first menu: connect() succeeds, or throws
\* and the finally block disconnects
CliConnect(ok) ==
    /\ cliPc = "start"
    /\ clientMade' = TRUE
    /\ IF ok THEN Display("mainMenu") ELSE Disconnect(TRUE)
    /\ UNCHANGED <<category, choice, lastCall, serverV>>

\* one turn of the loop of runInteractiveSession
MainMenuInput(line) ==
    /\ cliPc = "mainMenu"
    /\ choice' = [menu |-> "main", text |-> Trim(line)]
    /\ IF ToLowerCase(Trim(line)) = <<"q">>
       THEN Disconnect(clientMade) /\ UNCHANGED category
       ELSE IF Trim(line) = <<"0">>
       THEN Display("mainMenu") /\ UNCHANGED category
       ELSE IF ValidIndex(Trim(line), Len(ToolCategories))
       THEN Display("toolMenu") /\ category' = ParseIntLine(Trim(line)).value
       ELSE Display("mainEnter") /\ UNCHANGED category
    /\ UNCHANGED <<clientMade, lastCall, serverV>>

\* one turn of the loop of handleCategorySelection for a choice that is not
\* a tool: 'q' returns and '0' breaks, both to the loop of
\* runInteractiveSession, which displays the main menu
ToolMenuInput(line) ==
    /\ cliPc = "toolMenu"
    /\ ~ValidIndex(Trim(line), Len(ToolCategories[category]))
         \/ ToLowerCase(Trim(line)) = <<"q">> \/ Trim(line) = <<"0">>
    /\ choice' = [menu |-> "tool", text |-> Trim(line)]
    /\ IF ToLowerCase(Trim(line)) = <<"q">>
       THEN Display("mainMenu") /\ category' = 0
       ELSE IF Trim(line) = <<"0">>
       THEN Display("mainMenu") /\ category' = 0
       ELSE Display("toolEnter") /\ UNCHANGED category
    /\ UNCHANGED <<clientMade, lastCall, serverV>>

\* the parameters prompted for when line is typed at the tool menu
Prompted(line) ==
    IF cliPc = "toolMenu" /\ ValidIndex(Trim(line), Len(ToolCategories[category]))
    THEN ParamSet(ToolCategories[category][ParseIntLine(Trim(line)).value])
    ELSE {}

\* one turn of the loop of handleCategorySelection for the choice of a tool:
\* the parameters are prompted for and the tool is called; its result or its
\* error is shown
RunTool(line, va, given, httpOk) ==
    /\ cliPc = "toolMenu"
    /\ ToLowerCase(Trim(line)) # <<"q">> /\ Trim(line) # <<"0">>
    /\ ValidIndex(Trim(line), Len(ToolCategories[category]))
    /\ LET tool == ToolCategories[category][ParseIntLine(Trim(line)).value]
       IN  /\ "variety" \notin given
           /\ ("variety" \notin ParamSet(tool)) => va = EmptyStr
           /\ lastCall' = CallResult(tool, Answers(tool, va, given), httpOk)
    /\ choice' = [menu |-> "tool", text |-> Trim(line)]
    /\ Display("toolEnter")
    /\ UNCHANGED <<category, clientMade, serverV>>

\* Enter is pressed at 'Press Enter to continue...'; the menu of the loop
\* that asked is displayed on a cleared screen
PressEnter ==
    /\ cliPc \in {"mainEnter", "toolEnter"}
    /\ Display(IF cliPc = "mainEnter" THEN "mainMenu" ELSE "toolMenu")
    /\ choice' = NoChoice
    /\ lastCall' = NoCall
    /\ UNCHANGED <<category, clientMade, serverV>>

ClientNext ==
    \/ \E ok \in BOOLEAN : CliConnect(ok)
    \/ \E line \in MenuLines : MainMenuInput(line)
    \/ \E line \in MenuLines : ToolMenuInput(line)
    \/ \E line \in MenuLines, httpOk \in BOOLEAN :
          \E va \in VarietyAnswers, given \in SUBSET Prompted(line) :
             RunTool(line, va, given, httpOk)
    \/ PressEnter

\* the client is started in a directory whose .env holds the keys and a token
ClientInit ==
    /\ Init
    /\ envFile = File(KeyLines \o << KV(K_ACCESS_TOKEN, Old) >>)
    /\ osEnv = NoOsEnv

ClientSpec == ClientInit /\ [][ClientNext]_vars

\* the server alone, started in that directory
CallSpec == ClientInit /\ [][Next]_vars

----------------------------------------------------------------------------
(* Properties *)

\* the resolver is running or has run in this process
ResolverEntered == run >= 1 /\ failure # "config"

\* the exchange of this run succeeded
Exchanged == accessToken \in MintedTokens

\* getValidAccessToken has returned
Returned == resolved # Undefined

\* C1: when the stored token is present, is not the sentinel and the probe
\* reports it valid, the resolver returns exactly that token and has made no
\* POST /session/token, no prompt and no updateEnvFile call; the store is as
\* it was at start.
C1_ValidTokenReturnedUnchanged ==
    (isValid = "true") =>
        /\ existingToken \notin {Undefined, EmptyStr, Placeholder}
        /\ resolved = existingToken
        /\ probes = 1
        /\ posts = 0
        /\ prompts = 0
        /\ persistCalls = << >>
        /\ envFile = storeAtLaunch

C1_Witness ==
    /\ isValid = "true"
    /\ pc = "serving"
    /\ resolved = Old
    /\ zerodhaClient # Null

\* C2: when the stored token is undefined, empty or the sentinel
\* 'your_access_token', the probe is never issued and the interactive
\* exchange is started (the operator has been prompted).
C2_AbsentTokenSkipsProbe ==
    (ResolverEntered /\ existingToken \in {Undefined, EmptyStr, Placeholder}) =>
        /\ probes = 0
        /\ isValid = "unset"
        /\ prompts = 1

C2_Witness ==
    /\ existingToken = Placeholder
    /\ pc = "exchange"
    /\ probes = 0
    /\ posts = 1

\* C3: when the probe reports the token invalid there is exactly one prompt
\* and at most one POST /session/token; once that exchange has succeeded
\* updateEnvFile has been called exactly once, with the exchanged token, and
\* that call has returned by the time the resolver returns the token.
C3_InvalidTokenOneExchangeOnePersist ==
    (isValid = "false") =>
        /\ prompts = 1
        /\ posts <= 1
        /\ Exchanged => persistCalls = <<accessToken>>
        /\ ~Exchanged => persistCalls = << >>
        /\ Returned => /\ Exchanged
                       /\ resolved = accessToken
                       /\ persistDone = 1
        /\ persistDone <= Len(persistCalls)

C3_Witness ==
    /\ isValid = "false"
    /\ posts = 1
    /\ resolved = T2
    /\ persistCalls = <<T2>>
    /\ persistDone = 1
    /\ lastPersist.wrote

\* C4: when the pasted request token is empty or only whitespace,
\* interactiveAuth rejects without a POST /session/token; the resolver fails
\* and updateEnvFile is not called.
C4_BlankRequestTokenFailsFast ==
    (pasted # Undefined /\ \A i \in 1..Len(pasted) : pasted[i] = " ") =>
        /\ failure = "input"
        /\ posts = 0
        /\ requestToken = Undefined
        /\ persistCalls = << >>
        /\ ~Returned
        /\ envFile = storeAtLaunch

C4_Witness ==
    /\ pasted = <<" ", " ">>
    /\ failure = "input"
    /\ pc = "exited"

\* C5: a failure of the credential resolution (blank pasted token, network or
\* timeout error of the exchange, non-success exchange status) ends the
\* process with status 1 and nothing is retried: one prompt, at most one
\* exchange call, nothing persisted, no ZerodhaClient, no transport.
C5_ResolutionFailureIsFatal ==
    (failure \in {"input", "network", "status"}) =>
        /\ pc = "exited"
        /\ exitCode = Exited(1)
        /\ prompts = 1
        /\ posts = (IF failure = "input" THEN 0 ELSE 1)
        /\ persistCalls = << >>
        /\ envFile = storeAtLaunch
        /\ ~Returned
        /\ zerodhaClient = Null
        /\ ~connected
        /\ toolCalls = 0

C5_Witness ==
    /\ failure = "network"
    /\ isValid = "false"
    /\ posts = 1
    /\ exitCode = Exited(1)

\* C6: the ZerodhaClient exists only once the resolver has returned a token
\* (and holds that token); the transport is connected only once
\* initializeZerodhaClient has completed; so no CallTool request is handled
\* while zerodhaClient is null.
C6_StartupOrdering ==
    /\ zerodhaClient # Null =>
          /\ Returned
          /\ zerodhaClient.accessToken = resolved
    /\ connected =>
          /\ zerodhaClient # Null
          /\ failure = "none"
          /\ pc \in {"serving", "exited"}
    /\ toolCalls > 0 => connected
    /\ nullClientCalls = 0
    /\ lastResult # "not_initialized"

C6_Witness ==
    /\ connected
    /\ pc = "serving"
    /\ toolCalls = 2
    /\ lastResult = "ok"
    /\ zerodhaClient.accessToken = T1

\* C7: after an exchange that yielded a token and a write of .env that did
\* not fail, the next process start reads that token as its access token and
\* takes the probe path with it, whatever the store was before.
C7_PersistedTokenReadAtNextStart ==
    (run >= 2 /\ prev.wrote) =>
        /\ env[K_ACCESS_TOKEN] = prev.exchanged
        /\ existingToken = prev.exchanged
        /\ probes = 1

\* the lines of a content that dotenv reads as the access token
TokenLines(lines) == {i \in 1..Len(lines) : Assigns(lines[i], K_ACCESS_TOKEN)}

\* C8: when updateEnvFile has run on an existing store with an access-token
\* line, the content written differs from the content read only in that line,
\* which now carries the new token; every other line is the same.
C8_OnlyTokenLineReplaced ==
    (lastPersist.existed /\ TokenLines(lastPersist.read) # {}) =>
        LET first == Least(TokenLines(lastPersist.read))
        IN  /\ Len(lastPersist.written) = Len(lastPersist.read)
            /\ lastPersist.written[first] = KV(K_ACCESS_TOKEN, accessToken)
            /\ \A j \in 1..Len(lastPersist.read) :
                  j # first => lastPersist.written[j] = lastPersist.read[j]

\* C9: a failure to read or to write .env does not fail the resolver:
\* updateEnvFile never throws, and once it has returned the resolver returns
\* the exchanged token, which the ZerodhaClient is built with, also when
\* nothing was written.
C9_PersistenceFailureNotFatal ==
    /\ ~persistThrew
    /\ failure # "persist"
    /\ (persistDone = 1 /\ ~lastPersist.wrote) =>
          /\ envFile = storeAtLaunch
          /\ Exchanged
          /\ resolved = accessToken
          /\ zerodhaClient # Null
          /\ zerodhaClient.accessToken = accessToken
          /\ pc # "exited" \/ failure = "connection" \/ exitCode = Exited(0)

C9_Witness ==
    /\ persistDone = 1
    /\ ~lastPersist.wrote
    /\ ~lastPersist.existed
    /\ storeAtLaunch.exists
    /\ resolved = T1
    /\ pc = "serving"

\* C10: validateAccessToken never throws; its result is true exactly when the
\* request got a 2xx answer whose body has status 'success', false for every
\* other outcome, and after false the resolver goes on to prompt.
C10_ProbeNeverThrows ==
    /\ isValid # "threw"
    /\ failure # "probe"
    /\ probeOutcome # NoOutcome =>
          /\ isValid = (IF probeOutcome.kind = "ok" /\ probeOutcome.body = "success"
                        THEN "true" ELSE "false")
          /\ isValid = "false" => /\ pc = "prompt"
                                  /\ prompts = 1
                                  /\ exitCode = NotExited

C10_Witness ==
    /\ probeOutcome = [kind |-> "networkError", body |-> "empty"]
    /\ isValid = "false"
    /\ pc = "prompt"

\* C11: when ZERODHA_BASE_URL is not configured the Gateway works with
\* 'https://api.kite.trade', and when REQUEST_TIMEOUT is not configured it
\* works with 30000 ms.
C11_GatewayDefaultsApply ==
    (zerodhaClient # Null) =>
        /\ env[K_BASE_URL] = Undefined =>
              zerodhaClient.baseUrl = <<"https://api.kite.trade">>
        /\ env[K_TIMEOUT] = Undefined =>
              zerodhaClient.timeout = <<"30000">>

\* the bearer token in use is the accepted stored token or the exchanged one
TokenInUseIsResolved ==
    (zerodhaClient # Null) =>
        /\ Returned
        /\ \/ isValid = "true" /\ ~Exchanged /\ resolved = existingToken
           \/ isValid # "true" /\ Exchanged /\ resolved = accessToken
        /\ zerodhaClient.accessToken = resolved
        /\ zerodhaClient.authorization =
              <<"token ">> \o env[K_API_KEY] \o <<":">> \o resolved

\* within a run, a token once returned and a Gateway once built stay as they are
TokenNeverReassigned ==
    (run' = run) =>
        /\ Returned => resolved' = resolved
        /\ zerodhaClient # Null => zerodhaClient' = zerodhaClient

\* C12: within one run the bearer token is set at most once, to the stored
\* token accepted by the probe or to the token of one exchange; the Gateway is
\* built with exactly that token and no later step (tool call, API error)
\* changes the token or the Authorization header.
C12_TokenSetAtMostOnce ==
    []TokenInUseIsResolved /\ [][TokenNeverReassigned]_vars

C12_Witness ==
    /\ pc = "serving"
    /\ toolCalls = 2
    /\ lastResult = "api_error"
    /\ resolved = T1
    /\ zerodhaClient.authorization = <<"token ", "k", ":", "T1">>

\* C13: when the API key or the API secret is missing or empty at start-up,
\* the process exits with status 1 before any probe, prompt, exchange call or
\* write of the store.
C13_MissingCredentialsExitFirst ==
    (run >= 1 /\ \/ env[K_API_KEY] \in {Undefined, EmptyStr}
                 \/ env[K_API_SECRET] \in {Undefined, EmptyStr}) =>
        /\ failure = "config"
        /\ pc = "exited"
        /\ exitCode = Exited(1)
        /\ probes = 0
        /\ prompts = 0
        /\ posts = 0
        /\ persistCalls = << >>
        /\ envFile = storeAtLaunch
        /\ zerodhaClient = Null
        /\ ~connected

C13_Witness ==
    /\ failure = "config"
    /\ env[K_API_KEY] = <<"k">>
    /\ env[K_API_SECRET] = EmptyStr
    /\ env[K_ACCESS_TOKEN] = Old
    /\ exitCode = Exited(1)

\* the exchange body in flight has exactly the three fields, carries the
\* trimmed line as request_token and the digest of key + token + secret
ExchangeBodyWellFormed ==
    /\ postBody # Null
    /\ DOMAIN postBody = {"api_key", "request_token", "checksum"}
    /\ postBody.api_key = env[K_API_KEY]
    /\ postBody.request_token = Trim(pasted)
    /\ postBody.checksum
         = Sha256(env[K_API_KEY] \o postBody.request_token \o env[K_API_SECRET])

\* the digest of the body in flight differs from the one with the request
\* token and the secret swapped
SwapChangesDigest ==
    postBody.checksum
      # Sha256(env[K_API_KEY] \o env[K_API_SECRET] \o postBody.request_token)

\* C14 as stated: the body is well formed and, for every request token and
\* secret, swapping the two gives another digest.
C14_SwapAlwaysChangesDigest ==
    (pc = "exchange") => ExchangeBodyWellFormed /\ SwapChangesDigest

\* C14, amended: the body is well formed and swapping the request token and
\* the secret gives another digest whenever token + secret differs from
\* secret + token.
C14_ChecksumOfKeyTokenSecret ==
    (pc = "exchange") =>
        /\ ExchangeBodyWellFormed
        /\ (postBody.request_token \o env[K_API_SECRET]
              # env[K_API_SECRET] \o postBody.request_token) => SwapChangesDigest

C14_Witness ==
    /\ pc = "exchange"
    /\ pasted = <<" ", "r">>
    /\ postBody.request_token = <<"r">>
    /\ postBody.checksum = <<"sha256(", "k", "r", "s", ")">>

\* part occurs in message
Contains(message, part) ==
    \E i \in 1..(Len(message) - Len(part) + 1) :
        SubSeq(message, i, i + Len(part) - 1) = part

\* C15: a 'success' answer to the exchange makes data.access_token, and
\* nothing else of the answer, the token handed to persistence and returned;
\* any other answer fails the exchange with an Authentication error that
\* carries the server's message, and no token is returned.
C15_ExchangeOutcome ==
    /\ (exchangeOutcome # NoExchange /\ exchangeOutcome.status = "success") =>
          /\ accessToken = exchangeOutcome.data.access_token
          /\ persistCalls = <<exchangeOutcome.data.access_token>>
          /\ failure = "none"
          /\ errorMessage = Undefined
    /\ (exchangeOutcome # NoExchange /\ exchangeOutcome.status # "success") =>
          /\ exitCode = Exited(1)
          /\ failure \in {"status", "network"}
          /\ Head(errorMessage) = "Authentication failed: "
          /\ exchangeOutcome.message # Undefined =>
                Contains(errorMessage, exchangeOutcome.message)
          /\ accessToken = Undefined
          /\ resolved = Undefined
          /\ persistCalls = << >>
          /\ zerodhaClient = Null
    /\ (Exchanged /\ Returned) =>
          /\ resolved = accessToken
          /\ persistCalls = <<accessToken>>
          /\ zerodhaClient.accessToken = accessToken

C15_Witness ==
    /\ prev.exchanged = T1
    /\ exchangeOutcome = [kind |-> "ok", status |-> "error",
                          message |-> <<"Invalid checksum">>]
    /\ errorMessage = <<"Authentication failed: ", "Authentication failed: ",
                        "Invalid checksum">>
    /\ exitCode = Exited(1)

\* a CallTool request was handled in this step
ToolCallHandled == run' = run /\ toolCalls' = toolCalls + 1

\* C16: a tool call that reaches a Gateway method issues exactly one HTTP
\* request, with no retry; a failed request is thrown to the caller as
\* exactly one error; the Gateway is the same, and still serving, afterwards.
C16_OneRequestPerCall ==
    [][ToolCallHandled =>
          /\ lastResult' \in {"ok", "api_error"} =>
                gatewayRequests' = gatewayRequests + 1
          /\ lastResult' \notin {"ok", "api_error"} =>
                gatewayRequests' = gatewayRequests
          /\ toolErrors' = toolErrors + (IF lastResult' = "api_error" THEN 1 ELSE 0)
          /\ zerodhaClient' = zerodhaClient
          /\ pc' = "serving" /\ connected' /\ exitCode' = NotExited]_vars

\* a successful tool call after a failed one: the connection test and two
\* tool calls made three requests, one of which threw
C16_Witness ==
    /\ pc = "serving"
    /\ toolCalls = 2
    /\ toolErrors = 1
    /\ lastResult = "ok"
    /\ gatewayRequests = 3

\* getValidAccessToken threw in this run
ResolverFailed == failure \in {"probe", "input", "status", "network", "persist"}

\* never a token and a failure; past the resolver there is a token; a process
\* that ended inside the resolver failed, unless its input stream was closed
\* at the prompt
OneOutcome ==
    /\ ~(Returned /\ ResolverFailed)
    /\ pc \in {"testConn", "serving"} => Returned
    /\ (pc = "exited" /\ ResolverEntered) =>
          Returned \/ ResolverFailed \/ failure = "stdinClosed"
    /\ failure = "stdinClosed" =>
          /\ pc = "exited"
          /\ prompts = 1 /\ posts = 0
          /\ ~Returned /\ zerodhaClient = Null /\ ~connected

\* C17: the resolver gives a token or a failure, never both; with every HTTP
\* call answered it waits for good only at the prompt, and after a line is
\* submitted it returns or fails; a closed input stream ends the process.
C17_ResolverTerminates ==
    /\ []OneOutcome
    /\ (pc \in {"probe", "exchange", "envRead", "envWrite"})
          ~> (pc = "prompt" \/ Returned \/ ResolverFailed)
    /\ (pasted # Undefined) ~> (Returned \/ ResolverFailed)

C17_Witness ==
    /\ run = 2
    /\ prev.exchanged = T1
    /\ failure = "stdinClosed"
    /\ isValid = "false"
    /\ exitCode = Exited(0)

\* the last step read 'q' or 'Q' at a menu
QuitChosen == choice # NoChoice /\ ToLowerCase(choice.text) = <<"q">>

\* C18: 'q' at the main menu and at the tool menu of a category ends the
\* session: no menu is displayed, disconnect has run; every other input at
\* a menu keeps the session running.
C18_QuitEndsSession ==
    /\ QuitChosen => cliPc = "done" /\ disconnects = 1 /\ rlClosed
    /\ (choice # NoChoice /\ ~QuitChosen) => cliPc # "done" /\ disconnects = 0

\* C19: a tool chosen from the menu, with every parameter the client prompts
\* for answered, is not rejected by the server for a missing parameter.
C19_MenuToolsInvocable ==
    (lastCall.tool # "none" /\ DOMAIN lastCall.args = lastCall.prompted) =>
        lastCall.result # "missing_param"

\* C20: the request of place_order goes to the endpoint of the variety given
\* in the arguments ('regular' when none is given), as those of modify_order
\* and cancel_order do.
C20_PlaceOrderPathNamesVariety ==
    (lastCall.tool = "place_order" /\ lastCall.request # NoRequest) =>
        lastCall.request.path = <<"/orders/">> \o lastCall.request.variety

\* a call of name lacks an argument its handler requires
LacksRequired(name, args) ==
    \/ name = "place_order" /\ ~args.orderFields
    \/ name \in {"get_order_history", "get_order_trades", "modify_order",
                 "cancel_order"} /\ ~args.order_id

\* C21: a tool call lacking a required argument fails before any HTTP
\* request is made; a call carrying all of them makes exactly one request.
C21_ValidationBeforeRequest ==
    [][\A name \in HandlerNames, args \in ToolArgs, httpOk \in BOOLEAN :
          CallTool(name, args, httpOk) =>
             IF LacksRequired(name, args)
             THEN /\ lastResult' = "missing_param"
                  /\ gatewayRequests' = gatewayRequests
                  /\ toolErrors' = toolErrors
             ELSE /\ lastResult' \in {"ok", "api_error"}
                  /\ gatewayRequests' = gatewayRequests + 1]_vars

\* a rejected call after an answered one: the connection test and the first
\* call made the only two requests
C21_Witness ==
    /\ pc = "serving"
    /\ toolCalls = 2
    /\ lastResult = "missing_param"
    /\ gatewayRequests = 2
    /\ toolErrors = 0

\* the names of the tools of the menu of the interactive client
MenuToolNames ==
    UNION {{ToolCategories[c][t].name : t \in 1..Len(ToolCategories[c])} :
              c \in 1..Len(ToolCategories)}

\* the tools advertised, the tools handled and the tools of the menu are the same
RegistriesAgree ==
    /\ ZerodhaToolNames = HandlerNames
    /\ ZerodhaToolNames = MenuToolNames

IsNumeric(text) == text # << >> /\ \A i \in 1..Len(text) : IsDigit(text[i])

\* the entries of the menu the last choice was read at
MenuLength == IF choice.menu = "main" THEN Len(ToolCategories)
              ELSE Len(ToolCategories[category])

\* the last choice is none of 'q', '0' and the numbers of the menu's entries
InvalidChoice ==
    /\ choice # NoChoice
    /\ ToLowerCase(choice.text) # <<"q">>
    /\ choice.text # <<"0">>
    /\ \/ ~IsNumeric(choice.text)
       \/ DecimalValue(choice.text) - 1 >= MenuLength

\* a failed call is on the screen with the session up; an invalid choice
\* called no tool and waits for Enter at its own menu
ErrorsKeepSession ==
    /\ (lastCall.tool # "none" /\ lastCall.result # "ok") =>
          /\ cliPc = "toolEnter"
          /\ ~closed /\ ~rlClosed /\ disconnects = 0
          /\ lastCall.tool \in {ToolCategories[category][t].name :
                                   t \in 1..Len(ToolCategories[category])}
    /\ InvalidChoice =>
          /\ cliPc = (IF choice.menu = "main" THEN "mainEnter" ELSE "toolEnter")
          /\ lastCall = NoCall
          /\ disconnects = 0

\* after Enter the menu that was left is displayed again
EnterRedisplaysMenu ==
    /\ cliPc = "toolEnter" =>
          /\ cliPc' = "toolMenu" /\ category' = category
          /\ UNCHANGED <<clientMade, closed, rlClosed, disconnects>>
    /\ cliPc = "mainEnter" =>
          /\ cliPc' = "mainMenu"
          /\ UNCHANGED <<clientMade, closed, rlClosed, disconnects>>

\* C23: a failed tool call is reported and the tool menu of the same
\* category is displayed again with the client still connected; a choice
\* that is out of range or not a number returns to its menu and calls no tool.
C23_ErrorsKeepSession == []ErrorsKeepSession /\ [][EnterRedisplaysMenu]_vars

\* disconnect has run exactly when the session has ended, and then exactly
\* once: the readline interface is closed, and so are the client and the
\* transport when they were created
SessionEnded ==
    /\ cliPc = "done" =>
          /\ disconnects = 1
          /\ rlClosed
          /\ clientMade => closed
    /\ cliPc # "done" =>
          /\ disconnects = 0
          /\ ~rlClosed
          /\ ~closed

\* once disconnect has run no tool can be called
NoCallAfterDisconnect ==
    disconnects > 0 =>
        ~ENABLED (\E line \in MenuLines, httpOk \in BOOLEAN :
                     \E va \in VarietyAnswers, given \in SUBSET Prompted(line) :
                        RunTool(line, va, given, httpOk))

\* C24: a session of the client that ends, by 'q' at the main menu or by a
\* failed connect(), has run disconnect exactly once, which closed the
\* readline interface and the client and transport that were created; no
\* tool is called afterwards.
C24_DisconnectExactlyOnce == SessionEnded /\ NoCallAfterDisconnect

\* the session ended because connect() failed
C24_Witness ==
    /\ cliPc = "done"
    /\ choice = NoChoice
    /\ clientMade /\ closed /\ rlClosed
    /\ disconnects = 1

====
